---- MODULE Spec2Model ----
(***************************************************************************)
(* Model of mungpy's modified Adagrad optimizer (mung/torch_ext/optim.py)  *)
(* and of the configuration-driven training entry point                    *)
(* (mung/config/torch_ext/learn.py).                                       *)
(*                                                                         *)
(* Tensors are flattened, row-major sequences of fixed-point numbers: the  *)
(* integer n stands for the real n / Scale.  A tensor's shape is kept      *)
(* beside it (size), since step() reads the rank and the first dimension.  *)
(***************************************************************************)
EXTENDS Integers, Sequences, FiniteSets, TLC

VARIABLES
    param_groups,        \* self.param_groups: sequence of group records
    no_bias_l1,          \* self._no_bias_l1
    no_non_singleton_l1, \* self._no_non_singleton_l1
    size,                \* p.data.size() of every parameter
    pdata,               \* p.data of every parameter
    grad,                \* p.grad of every parameter
    state,               \* self.state[p]: step, sum, avg, zeros
    op,                  \* the operation that ran last
    ret,                 \* what that operation returned or raised
    closure_arg,         \* the closure the last step() was given
    closure_calls,       \* how many times a closure has been invoked
    closure_saw,         \* the parameters and states the closure saw when invoked
    calls,               \* step() calls made since construction
    since_reset,         \* step() calls made since the last reset()
    all_present,         \* every such call found a gradient on every parameter
    hist,                \* per parameter, the gradients step() used since reset()
    data,                \* the dataset data_sets[config["data"]]
    config,              \* config["data_size"] of the last train_from_config call
    subset,              \* what data.get_subset returned in that call
    trained              \* the dataset trainer.train received in that call

vars == <<param_groups, no_bias_l1, no_non_singleton_l1, size, pdata, grad, state,
          op, ret, closure_arg, closure_calls, closure_saw, calls, since_reset,
          all_present, hist, data, config, subset, trained>>

optvars == <<param_groups, no_bias_l1, no_non_singleton_l1, size, pdata, grad, state,
             op, ret, closure_arg, closure_calls, closure_saw, calls, since_reset,
             all_present, hist>>

trainvars == <<data, config, subset, trained>>

-----------------------------------------------------------------------------
(* Bounds *)

\* step() calls explored per behaviour of the two-parameter optimizer
MaxSteps == 2

\* step() calls explored per behaviour of the one-parameter optimizer
MaxSingleSteps == 3

\* examples in the dataset
NumExamples == 4

-----------------------------------------------------------------------------
(* Fixed-point arithmetic standing for torch's float arithmetic *)

\* one unit: the integer that stands for 1.0
Scale == 100

\* the 1e-10 added to the square root; it is below the grid's resolution and
\* is kept as one grid step so that it still keeps the denominator positive
Eps == 1

Abs(x) == IF x < 0 THEN -x ELSE x

Sign(x) == IF x > 0 THEN 1 ELSE IF x < 0 THEN -1 ELSE 0

Max(a, b) == IF a >= b THEN a ELSE b

Min(a, b) == IF a <= b THEN a ELSE b

\* integer quotient rounded toward zero
Quot(a, b) == Sign(a) * Sign(b) * (Abs(a) \div Abs(b))

Mul(a, b) == Quot(a * b, Scale)

Div(a, b) == Quot(a * Scale, b)

RECURSIVE Root(_, _, _)
\* the largest r in lo..hi with r * r <= x
Root(x, lo, hi) ==
    IF lo >= hi THEN lo
    ELSE LET mid == (lo + hi + 1) \div 2
         IN IF mid * mid <= x THEN Root(x, mid, hi) ELSE Root(x, lo, mid - 1)

\* the root is sought below 2^15, which bounds it for every 31-bit operand
Sqrt(a) == Root(a * Scale, 0, Min(a * Scale, 32767))

-----------------------------------------------------------------------------
(* Tensors *)

RECURSIVE Prod(_)
Prod(s) == IF s = <<>> THEN 1 ELSE Head(s) * Prod(Tail(s))

\* number of elements of a tensor of shape s
Numel(s) == Prod(s)

Zeros(s) == [i \in 1..Numel(s) |-> 0]

VAdd(a, b) == [i \in DOMAIN a |-> a[i] + b[i]]

VMul(a, b) == [i \in DOMAIN a |-> Mul(a[i], b[i])]

VScale(c, a) == [i \in DOMAIN a |-> Mul(c, a[i])]

(* Gradients.  kind is "none" (p.grad is None), "dense" (v holds every      *)
(* element) or "sparse" (idx holds flat indices, v the value stored at each *)
(* of them; an index may occur more than once until the tensor is           *)
(* coalesced).                                                              *)
NoGrad == [kind |-> "none", idx |-> <<>>, v |-> <<>>]

Dense(v) == [kind |-> "dense", idx |-> <<>>, v |-> v]

Sparse(idx, v) == [kind |-> "sparse", idx |-> idx, v |-> v]

is_sparse(g) == g.kind = "sparse"

IndexSet(g) == {g.idx[j] : j \in DOMAIN g.idx}

RECURSIVE SumAt(_, _, _)
\* the sum of the values a sparse tensor stores at index k, from entry j on
SumAt(g, k, j) ==
    IF j > Len(g.idx) THEN 0
    ELSE (IF g.idx[j] = k THEN g.v[j] ELSE 0) + SumAt(g, k, j + 1)

RECURSIVE SortSet(_)
SortSet(S) ==
    IF S = {} THEN <<>>
    ELSE LET m == CHOOSE x \in S : \A y \in S : x <= y
         IN <<m>> \o SortSet(S \ {m})

\* the dense tensor of n elements a gradient stands for
ToDense(g, n) == IF is_sparse(g) THEN [i \in 1..n |-> SumAt(g, i, 1)] ELSE g.v

\* a coalesce() that leaves the entries as they are
coalesce_not(g) == g

\* grad.coalesce(): unique indices in ascending order, duplicates summed
coalesce(g) ==
    LET ix == SortSet(IndexSet(g))
    IN Sparse(ix, [j \in DOMAIN ix |-> SumAt(g, ix[j], 1)])

\* make_sparse(values): the sparse tensor with grad's indices and the given
\* values, or the empty sparse tensor when there are no indices or no values
make_sparse(grad_indices, values) ==
    IF Len(grad_indices) = 0 \/ Len(values) = 0
    THEN Sparse(<<>>, <<>>)
    ELSE Sparse(grad_indices, values)

RECURSIVE ScatterAdd(_, _, _, _)
\* dense.add_(c, sparse): c times each stored value is added at its index,
\* entry j onwards
ScatterAdd(t, c, sp, j) ==
    IF j > Len(sp.idx) THEN t
    ELSE ScatterAdd([t EXCEPT ![sp.idx[j]] = @ + Mul(c, sp.v[j])], c, sp, j + 1)

\* dense._sparse_mask(sp): the values of the dense tensor at sp's indices
sparse_mask(t, sp) == Sparse(sp.idx, [j \in DOMAIN sp.idx |-> t[sp.idx[j]]])

-----------------------------------------------------------------------------
(* Adagrad *)

\* the parameters in the order the two nested loops visit them
RECURSIVE Order(_)
Order(groups) ==
    IF groups = <<>> THEN <<>> ELSE Head(groups).params \o Order(Tail(groups))

\* the parameters registered with the optimizer
Params == {Order(param_groups)[i] : i \in DOMAIN Order(param_groups)}

InSeq(x, s) == \E i \in DOMAIN s : s[i] = x

GroupOf(p) ==
    param_groups[CHOOSE i \in DOMAIN param_groups : InSeq(p, param_groups[i].params)]

\* state['step'] += 1, forgotten
increment_not(s) == s

\* state['step'] += 1
increment(s) == [s EXCEPT !.step = @ + 1]

\* reset(): the state record of one parameter
ResetState(shape) ==
    [step |-> 0, sum |-> Zeros(shape), avg |-> Zeros(shape), zeros |-> Zeros(shape)]

RECURSIVE FirstStep(_, _)
\* get_step(): the step of the first parameter whose state holds one
FirstStep(order, st) ==
    IF order = <<>> THEN <<>>
    ELSE IF "step" \in DOMAIN st[Head(order)] THEN <<st[Head(order)].step>>
         ELSE FirstStep(Tail(order), st)

get_step == FirstStep(Order(param_groups), state)

\* clr = group['lr'] / (1 + (state['step'] - 1) * group['lr_decay'])
Clr(group, step) == Div(group.lr, Scale + (step - 1) * group.lr_decay)

\* the shape test of the L1 branch, with Python's precedence: and before or
L1Shape(shape) ==
    (~no_bias_l1)
    \/ ((Len(shape) > 1 \/ shape[1] > 1) /\ ((~no_non_singleton_l1) \/ shape[1] = 1))

\* the branch of step() a parameter with gradient g takes
Path(group, shape, g) ==
    IF group.l1_C # 0 /\ L1Shape(shape) THEN "l1"
    ELSE IF is_sparse(g) THEN "sparse"
    ELSE "dense"

\* grad = grad.add(group['weight_decay'], p.data) when weight_decay is not 0
DecayedGrad(group, g, d) ==
    IF group.weight_decay # 0 THEN Dense(VAdd(g.v, VScale(group.weight_decay, d))) ELSE g

\* an L1 branch that adds the new value to p.data instead of assigning it
L1Accumulate(group, g, d, s) ==
    LET avg      == VAdd(s.avg, g.v)
        sum      == VAdd(s.sum, VMul(g.v, g.v))
        clr      == Clr(group, s.step)
        g_bar    == [i \in DOMAIN avg |-> Quot(avg[i], s.step)]
        adapt    == [i \in DOMAIN sum |-> Sqrt(sum[i]) + Eps]
        sparsity == [i \in DOMAIN avg |-> Max(Abs(g_bar[i]) - group.l1_C, s.zeros[i])]
    IN [pdata |-> [i \in DOMAIN avg |->
                     d[i] + Mul(Sign(-g_bar[i]) * Div(clr * s.step, adapt[i]), sparsity[i])],
        state |-> [s EXCEPT !.avg = avg, !.sum = sum]]

\* the L1 branch; s.step is already incremented
L1Update(group, g, d, s) ==
    LET avg      == VAdd(s.avg, g.v)
        sum      == VAdd(s.sum, VMul(g.v, g.v))
        clr      == Clr(group, s.step)
        g_bar    == [i \in DOMAIN avg |-> Quot(avg[i], s.step)]
        adapt    == [i \in DOMAIN sum |-> Sqrt(sum[i]) + Eps]
        sparsity == [i \in DOMAIN avg |-> Max(Abs(g_bar[i]) - group.l1_C, s.zeros[i])]
    IN [pdata |-> [i \in DOMAIN avg |->
                     Mul(Sign(-g_bar[i]) * Div(clr * s.step, adapt[i]), sparsity[i])],
        state |-> [s EXCEPT !.avg = avg, !.sum = sum]]

\* the sparse branch
SparseUpdate(group, g, d, s) ==
    LET grad_c     == coalesce(g)
        clr        == Clr(group, s.step)
        sq         == make_sparse(grad_c.idx, [j \in DOMAIN grad_c.v |-> Mul(grad_c.v[j], grad_c.v[j])])
        sum        == ScatterAdd(s.sum, Scale, sq, 1)
        std        == sparse_mask(sum, grad_c)
        std_values == [j \in DOMAIN std.v |-> Sqrt(std.v[j]) + Eps]
        delta      == make_sparse(grad_c.idx, [j \in DOMAIN grad_c.v |-> Div(grad_c.v[j], std_values[j])])
    IN [pdata |-> ScatterAdd(d, -clr, delta, 1),
        state |-> [s EXCEPT !.sum = sum]]

\* a dense branch that accumulates the gradient instead of its square
DenseUpdateLinear(group, g, d, s) ==
    LET clr == Clr(group, s.step)
        sum == VAdd(s.sum, g.v)
        std == [i \in DOMAIN sum |-> Sqrt(Abs(sum[i])) + Eps]
    IN [pdata |-> [i \in DOMAIN d |-> d[i] + Mul(-clr, Div(g.v[i], std[i]))],
        state |-> [s EXCEPT !.sum = sum]]

\* the dense branch
DenseUpdate(group, g, d, s) ==
    LET clr == Clr(group, s.step)
        sum == VAdd(s.sum, VMul(g.v, g.v))
        std == [i \in DOMAIN sum |-> Sqrt(sum[i]) + Eps]
    IN [pdata |-> [i \in DOMAIN d |-> d[i] + Mul(-clr, Div(g.v[i], std[i]))],
        state |-> [s EXCEPT !.sum = sum]]

\* lines 77-110 for one parameter whose step is already incremented and whose
\* gradient passed the weight-decay test
UpdateParam(group, shape, g, d, s) ==
    LET gd == DecayedGrad(group, g, d)
        path == Path(group, shape, g)
    IN IF path = "l1" THEN L1Update(group, gd, d, s)
       ELSE IF path = "sparse" THEN SparseUpdate(group, gd, d, s)
       ELSE DenseUpdate(group, gd, d, s)

\* a test that lets the sparse gradient through when the group has an l1_C
RaisesUnlessL1(group, g) ==
    group.weight_decay # 0 /\ is_sparse(g) /\ group.l1_C = 0

\* the test that raises RuntimeError
Raises(group, g) == group.weight_decay # 0 /\ is_sparse(g)

RECURSIVE LoopRollback(_, _, _, _, _)
\* loops that restore every parameter and state when they raise
LoopRollback(order, i, G, D, S) ==
    IF i > Len(order) THEN [pdata |-> D, state |-> S, raised |-> FALSE]
    ELSE LET p  == order[i]
             g  == G[p]
             s1 == increment(S[p])
         IN IF g.kind = "none" THEN LoopRollback(order, i + 1, G, D, S)
            ELSE IF Raises(GroupOf(p), g)
                 THEN [pdata |-> pdata, state |-> state, raised |-> TRUE]
                 ELSE LET u == UpdateParam(GroupOf(p), size[p], g, D[p], s1)
                      IN LoopRollback(order, i + 1, G, [D EXCEPT ![p] = u.pdata],
                                      [S EXCEPT ![p] = u.state])

RECURSIVE Loop(_, _, _, _, _)
\* the two nested loops of step() from the i-th parameter on: the parameter
\* values and states they leave, and whether they raised
Loop(order, i, G, D, S) ==
    IF i > Len(order) THEN [pdata |-> D, state |-> S, raised |-> FALSE]
    ELSE LET p  == order[i]
             g  == G[p]
             s1 == increment(S[p])
         IN IF g.kind = "none" THEN Loop(order, i + 1, G, D, S)
            ELSE IF Raises(GroupOf(p), g)
                 THEN [pdata |-> D, state |-> [S EXCEPT ![p] = s1], raised |-> TRUE]
                 ELSE LET u == UpdateParam(GroupOf(p), size[p], g, D[p], s1)
                      IN Loop(order, i + 1, G, [D EXCEPT ![p] = u.pdata],
                              [S EXCEPT ![p] = u.state])

-----------------------------------------------------------------------------
(* Inputs *)

\* shapes: a one-unit bias, a bias vector, a one-unit layer, a wider layer
Shapes == {<<1>>, <<3>>, <<1, 2>>, <<2, 1>>}

\* the options a parameter group is built with: lr 0.1, lr_decay 0 or 0.5,
\* weight_decay 0 or 0.1, l1_C 0 or 0.5
GroupOptions ==
    [lr : {10}, lr_decay : {0, 50}, weight_decay : {0, 10}, l1_C : {0, 50}]

Group(params, o) ==
    [params |-> params, lr |-> o.lr, lr_decay |-> o.lr_decay,
     weight_decay |-> o.weight_decay, l1_C |-> o.l1_C]

Ones(n) == [i \in 1..n |-> Scale]

Mixed(n) == [i \in 1..n |-> (2 * i - 4) * Scale]

Countdown(n) == [j \in 1..n |-> n + 1 - j]

\* a sparse gradient that stores every index, the first one twice, unsorted
SparseFull(n) ==
    Sparse(Countdown(n) \o <<1>>,
           [j \in 1..(n + 1) |-> IF j = n THEN 3 * Scale ELSE -Scale])

\* a sparse gradient that stores the last index only
SparseLast(n) == Sparse(<<n>>, <<2 * Scale>>)

\* the gradients a backward pass can leave on a parameter of n elements
GradsOf(n) == {NoGrad, Dense(Ones(n)), Dense(Mixed(n)), SparseFull(n), SparseLast(n)}

\* a closure is the loss it returns; <<>> stands for None
Closures == {<<>>, <<7>>}

-----------------------------------------------------------------------------
(* Operations of the optimizer *)

\* what Adagrad.__init__ leaves once param_groups, the flags and the
\* parameters' shapes are chosen
Constructed ==
    /\ pdata = [p \in Params |-> Zeros(size[p])]
    /\ grad = [p \in Params |-> NoGrad]
    /\ state = [p \in Params |-> ResetState(size[p])]
    /\ op = "init"
    /\ ret = [kind |-> "return", value |-> <<>>]
    /\ closure_arg = <<>>
    /\ closure_calls = 0
    /\ closure_saw = [pdata |-> <<>>, state |-> <<>>]
    /\ calls = 0
    /\ since_reset = 0
    /\ all_present = TRUE
    /\ hist = [p \in Params |-> <<>>]

\* train_from_config has not run and there is no dataset
Untrained ==
    /\ data = <<>>
    /\ config = <<>>
    /\ subset = <<>>
    /\ trained = <<>>

\* Adagrad(params) with the default flags over a one-unit layer and a bias
\* vector, each in a group of its own
Init ==
    /\ \E o1 \in GroupOptions, o2 \in GroupOptions :
          /\ o1.lr_decay = o2.lr_decay
          /\ param_groups = <<Group(<<1>>, o1), Group(<<2>>, o2)>>
    /\ no_bias_l1 = TRUE
    /\ no_non_singleton_l1 = TRUE
    /\ size = <<(<<1, 2>>), (<<3>>)>>
    /\ Constructed
    /\ Untrained

\* Adagrad(params) over one parameter, for every choice of flags and shape
InitSingle ==
    /\ \E o \in GroupOptions : param_groups = <<Group(<<1>>, o)>>
    /\ no_bias_l1 \in BOOLEAN
    /\ no_non_singleton_l1 \in BOOLEAN
    /\ \E shape \in Shapes : size = <<shape>>
    /\ Constructed
    /\ Untrained

\* a reset() that forgets state['avg']
reset_keeps_avg(st) ==
    [p \in DOMAIN st |-> [ResetState(size[p]) EXCEPT !.avg = st[p].avg]]

\* the loops of reset() over the state dictionary st
reset(st) == [p \in DOMAIN st |-> ResetState(size[p])]

\* reset()
Reset ==
    /\ state' = reset(state)
    /\ op' = "reset"
    /\ ret' = [kind |-> "return", value |-> <<>>]
    /\ since_reset' = 0
    /\ all_present' = TRUE
    /\ hist' = [p \in Params |-> <<>>]
    /\ UNCHANGED <<param_groups, no_bias_l1, no_non_singleton_l1, size, pdata, grad,
                   closure_arg, closure_calls, closure_saw, calls>>
    /\ UNCHANGED trainvars

\* the gradients step() is defined on: torch gives addcmul_ no sparse operand,
\* so a sparse gradient never reaches the L1 branch
WellFormed(G) ==
    \A p \in Params :
        is_sparse(G[p]) /\ ~Raises(GroupOf(p), G[p])
            => Path(GroupOf(p), size[p], G[p]) # "l1"

\* a closure invoked after the loops
closure_view_late(D, S, r) == [pdata |-> r.pdata, state |-> r.state]

\* what a closure invoked by step() finds: the parameters and states as they
\* are when lines 65-66 run, D and S at the call, r after the loops
closure_view(D, S, r) == [pdata |-> D, state |-> S]

\* step(closure), after a backward pass that left the gradients G
StepWith(limit, G, closure) ==
    /\ calls < limit
    /\ WellFormed(G)
    /\ \E r \in {Loop(Order(param_groups), 1, G, pdata, state)} :
          /\ grad' = G
          /\ pdata' = r.pdata
          /\ state' = r.state
          /\ ret' = IF r.raised THEN [kind |-> "raise", value |-> <<>>]
                    ELSE [kind |-> "return", value |-> closure]
          /\ hist' = [p \in Params |->
                        IF r.state[p].step # state[p].step THEN Append(hist[p], G[p])
                        ELSE hist[p]]
          /\ closure_saw' = IF closure # <<>> THEN closure_view(pdata, state, r)
                            ELSE closure_saw
    /\ op' = "step"
    /\ closure_calls' = IF closure # <<>> THEN closure_calls + 1 ELSE closure_calls
    /\ closure_arg' = closure
    /\ calls' = calls + 1
    /\ since_reset' = since_reset + 1
    /\ all_present' = (all_present /\ \A p \in Params : G[p].kind # "none")
    /\ UNCHANGED <<param_groups, no_bias_l1, no_non_singleton_l1, size>>
    /\ UNCHANGED trainvars

\* step(closure) of the two-parameter optimizer
Step ==
    \E g1 \in {NoGrad, Dense(Mixed(2)), SparseFull(2)},
       g2 \in {NoGrad, Dense(Ones(3)), SparseLast(3)},
       closure \in Closures :
        StepWith(MaxSteps, <<g1, g2>>, closure)

\* step() of the one-parameter optimizer
StepSingle ==
    \E g \in GradsOf(Numel(size[1])) : StepWith(MaxSingleSteps, <<g>>, <<>>)

Next == Reset \/ Step

Spec == Init /\ [][Next]_vars

NextSingle == Reset \/ StepSingle

SingleSpec == InitSingle /\ [][NextSingle]_vars

-----------------------------------------------------------------------------
(* The training entry point *)

Examples == 1..NumExamples

\* the values config["data_size"] takes; <<>> stands for a config without it
DataSizes == {<<>>} \cup {<<k>> : k \in 0..(NumExamples + 1)}

\* DataSet.shuffle: the orders an in-place shuffle can leave the examples in
Shuffles(d) ==
    {s \in [DOMAIN d -> {d[i] : i \in DOMAIN d}] :
        \A i, j \in DOMAIN s : i # j => s[i] # s[j]}

\* DataSet.get_subset(i, j): a new dataset holding examples i .. j-1
get_subset(d, i, j) == SubSeq(d, i + 1, Min(j, Len(d)))

\* Trainer.train: the dataset it iterates over is the one it is handed
train(d) == d

\* a program holding the dataset, before train_from_config is called
InitTrain ==
    /\ param_groups = <<Group(<<1>>, [lr |-> 10, lr_decay |-> 0, weight_decay |-> 0, l1_C |-> 0])>>
    /\ no_bias_l1 = TRUE
    /\ no_non_singleton_l1 = TRUE
    /\ size = <<(<<3>>)>>
    /\ Constructed
    /\ data = [i \in Examples |-> i]
    /\ config = <<>>
    /\ subset = <<>>
    /\ trained = <<>>

\* train_from_config(config, ...): lines 17-20 and the call of trainer.train
train_from_config(data_size) ==
    /\ IF data_size # <<>>
       THEN /\ data' \in Shuffles(data)
            /\ subset' = get_subset(data', 0, data_size[1])
       ELSE /\ data' = data
            /\ subset' = <<>>
    /\ config' = data_size
    /\ trained' = train(data')
    /\ op' = "train_from_config"
    /\ UNCHANGED <<param_groups, no_bias_l1, no_non_singleton_l1, size, pdata, grad,
                   state, ret, closure_arg, closure_calls, closure_saw, calls,
                   since_reset, all_present, hist>>

TrainFromConfig == \E data_size \in DataSizes : train_from_config(data_size)

NextTrain == TrainFromConfig

TrainSpec == InitTrain /\ [][NextTrain]_vars

-----------------------------------------------------------------------------
(* Properties of the two-parameter optimizer, checked under Spec *)

\* the transition is a call of step()
StepCall == calls' = calls + 1

ParamOrder == Order(param_groups)

\* C1: a step() that finds a sparse gradient on a parameter whose group has
\* weight_decay # 0 raises, whatever l1_C, the flags, the shape and the
\* parameter's place in the order; it never returns
C1_SparseWeightDecayRaises ==
    [][(StepCall /\ \E p \in Params :
                       is_sparse(grad'[p]) /\ GroupOf(p).weight_decay # 0)
          => ret'.kind = "raise"]_vars

\* C1 happens: step() raised on the first parameter, sparse gradient, a group
\* with weight_decay and l1_C, while the second parameter had a dense gradient
C1_Witness ==
    /\ op = "step" /\ ret.kind = "raise"
    /\ is_sparse(grad[1]) /\ GroupOf(1).weight_decay # 0 /\ GroupOf(1).l1_C # 0
    /\ grad[2].kind = "dense"

\* C3: after reset() get_step() is 0, and after N step() calls since then,
\* each made with a gradient on every parameter, get_step() is N
C3_GetStepCountsCalls == all_present => get_step = <<since_reset>>

\* C3 happens: two step() calls with every gradient present, the last raising
C3_Witness ==
    /\ all_present /\ since_reset = 2 /\ op = "step" /\ ret.kind = "raise"
    /\ get_step = <<2>>

\* C7: reset() leaves step 0 and all-zero sum and avg of the parameter's shape
\* on every registered parameter, which is the state of a new optimizer over
\* the same parameters, it leaves the parameters alone, and a second reset()
\* changes nothing
C7_ResetGivesFreshState ==
    [][op' = "reset" =>
          /\ \A i \in DOMAIN param_groups :
                \A j \in DOMAIN param_groups[i].params :
                   LET p == param_groups[i].params[j]
                   IN /\ state'[p].step = 0
                      /\ state'[p].sum = [k \in 1..Numel(size[p]) |-> 0]
                      /\ state'[p].avg = [k \in 1..Numel(size[p]) |-> 0]
          /\ pdata' = pdata
          /\ (op = "reset" => state' = state)]_vars

\* C7 happens: reset() ran after two step() calls that moved the second
\* parameter and left an avg on the first
C7_Witness ==
    /\ op = "reset" /\ calls = 2 /\ since_reset = 0
    /\ pdata[2] # Zeros(size[2])
    /\ pdata[1] # Zeros(size[1])
    /\ GroupOf(1).l1_C # 0
    /\ state[1].avg = Zeros(size[1]) /\ state[2].sum = Zeros(size[2])

\* C8: a step() given a closure invokes it once, on the parameters and states
\* as they were when step() was called, and returns what it returned; a step()
\* given none invokes nothing and returns None
C8_ClosureOnceBeforeUpdates ==
    [][StepCall =>
          IF closure_arg' # <<>>
          THEN /\ closure_calls' = closure_calls + 1
               /\ closure_saw' = [pdata |-> pdata, state |-> state]
               /\ (ret'.kind = "return" => ret'.value = closure_arg')
          ELSE /\ closure_calls' = closure_calls
               /\ closure_saw' = closure_saw
               /\ (ret'.kind = "return" => ret'.value = <<>>)]_vars

\* C8 happens: the second step() with a closure returned its loss after
\* updating parameters the closure had seen before the update
C8_Witness ==
    /\ op = "step" /\ closure_arg = <<7>> /\ closure_calls = 2
    /\ ret = [kind |-> "return", value |-> <<7>>]
    /\ closure_saw.state[1].step = 1 /\ state[1].step = 2
    /\ closure_saw.pdata # pdata

\* the place in the order of the parameter on which step() raises
TriggerIndex(G) ==
    CHOOSE k \in DOMAIN ParamOrder :
        /\ Raises(GroupOf(ParamOrder[k]), G[ParamOrder[k]])
        /\ \A j \in 1..(k - 1) : ~Raises(GroupOf(ParamOrder[j]), G[ParamOrder[j]])

\* C10: a step() that raises leaves the value, sum and avg of the parameter it
\* raised on and everything of the later parameters as they were, has
\* incremented that parameter's step, and keeps the update of every earlier
\* parameter
C10_RaiseIsNotRolledBack ==
    [][(StepCall /\ ret'.kind = "raise") =>
          LET k == TriggerIndex(grad')
              t == ParamOrder[k]
          IN /\ pdata'[t] = pdata[t]
             /\ state'[t].sum = state[t].sum
             /\ state'[t].avg = state[t].avg
             /\ state'[t].step = state[t].step + 1
             /\ \A j \in (k + 1)..Len(ParamOrder) :
                   /\ pdata'[ParamOrder[j]] = pdata[ParamOrder[j]]
                   /\ state'[ParamOrder[j]] = state[ParamOrder[j]]
             /\ \A j \in 1..(k - 1) :
                   LET q == ParamOrder[j]
                   IN IF grad'[q].kind = "none"
                      THEN pdata'[q] = pdata[q] /\ state'[q] = state[q]
                      ELSE /\ state'[q].step = state[q].step + 1
                           /\ [pdata |-> pdata'[q], state |-> state'[q]]
                                = UpdateParam(GroupOf(q), size[q], grad'[q], pdata[q],
                                              [state[q] EXCEPT !.step = @ + 1])]_vars

\* C10 happens: the first step() raised on the second parameter after it had
\* updated the first
C10_Witness ==
    /\ op = "step" /\ ret.kind = "raise" /\ calls = 1
    /\ grad[1].kind = "dense" /\ ~Raises(GroupOf(1), grad[1])
    /\ Raises(GroupOf(2), grad[2])
    /\ pdata[1] # Zeros(size[1]) /\ state[1].step = 1
    /\ pdata[2] = Zeros(size[2]) /\ state[2].step = 1
    /\ state[2].sum = Zeros(size[2])

-----------------------------------------------------------------------------
(* Properties of the one-parameter optimizer, checked under SingleSpec *)

\* prior values a parameter of n elements could have had instead
AltValues(n) == {[i \in 1..n |-> 0], Ones(n), Mixed(n)}

\* step() returned after sending parameter p down branch b
Took(p, b) ==
    /\ StepCall /\ ret'.kind = "return" /\ grad'[p].kind # "none"
    /\ Path(GroupOf(p), size[p], grad'[p]) = b

\* the values step() would have left from the same states and gradients had
\* parameter p held v
ValuesFrom(p, v) ==
    Loop(ParamOrder, 1, grad', [pdata EXCEPT ![p] = v], state).pdata

\* C4 as stated: on the L1 branch the value step() leaves does not depend on
\* the value the parameter had, for every group that selects the branch
C4_L1IgnoresPriorValue ==
    [][\A p \in Params :
          Took(p, "l1")
             => \A v \in AltValues(Numel(size[p])) : ValuesFrom(p, v)[p] = pdata'[p]]_vars

\* C4 amended: on the L1 branch of a group with weight_decay = 0 the value
\* step() leaves does not depend on the value the parameter had
C4_L1IgnoresPriorValueNoDecay ==
    [][\A p \in Params :
          (Took(p, "l1") /\ GroupOf(p).weight_decay = 0)
             => \A v \in AltValues(Numel(size[p])) : ValuesFrom(p, v)[p] = pdata'[p]]_vars

\* C4 happens: a second L1 step without weight decay replaced a non-zero value
\* by another non-zero value
C4_Witness ==
    /\ op = "step" /\ ret.kind = "return" /\ grad[1].kind = "dense"
    /\ Path(GroupOf(1), size[1], grad[1]) = "l1"
    /\ GroupOf(1).weight_decay = 0
    /\ state[1].step = 2 /\ Len(hist[1]) = 2 /\ hist[1][1] # hist[1][2]
    /\ \E i \in DOMAIN pdata[1] : pdata[1][i] # 0

\* C5: a step() down the sparse branch whose gradient stores every index
\* leaves the value and the sum that the dense branch leaves from the same
\* value, step and sum with the equivalent dense gradient
C5_FullSparseEqualsDense ==
    [][\A p \in Params :
          (Took(p, "sparse") /\ IndexSet(grad'[p]) = 1..Numel(size[p]))
             => LET u == DenseUpdate(GroupOf(p),
                                     Dense(ToDense(grad'[p], Numel(size[p]))),
                                     pdata[p], [state[p] EXCEPT !.step = @ + 1])
                IN /\ pdata'[p] = u.pdata
                   /\ state'[p].sum = u.state.sum
                   /\ state'[p].step = u.state.step]_vars

\* C5 happens: a second sparse step stored every index of a three-element
\* parameter, one of them twice
C5_Witness ==
    /\ op = "step" /\ ret.kind = "return" /\ size[1] = <<3>>
    /\ is_sparse(grad[1]) /\ Path(GroupOf(1), size[1], grad[1]) = "sparse"
    /\ IndexSet(grad[1]) = 1..3 /\ Len(grad[1].idx) = 4
    /\ state[1].step = 2 /\ Len(hist[1]) = 2
    /\ \A i \in 1..3 : state[1].sum[i] # 0 /\ pdata[1][i] # 0

RECURSIVE SumOfSquares(_, _)
\* the element-wise sum of the squares of the dense gradients in h, over n
\* elements
SumOfSquares(h, n) ==
    IF h = <<>> THEN [i \in 1..n |-> 0]
    ELSE LET rest == SumOfSquares(Tail(h), n)
         IN [i \in 1..n |-> (Head(h).v[i] * Head(h).v[i]) \div Scale + rest[i]]

\* C6: a parameter of a group with weight_decay = 0 and l1_C = 0 that has
\* been given dense gradients g_1 .. g_N since the last reset() has sum equal
\* to the element-wise sum of their squares and step equal to N
C6_DenseSumOfSquares ==
    \A p \in Params :
        (/\ GroupOf(p).weight_decay = 0
         /\ GroupOf(p).l1_C = 0
         /\ \A j \in DOMAIN hist[p] : hist[p][j].kind = "dense")
           => /\ state[p].sum = SumOfSquares(hist[p], Numel(size[p]))
              /\ state[p].step = Len(hist[p])

\* C6 happens: a shape-[3] parameter with lr_decay 0 stepped three times with
\* gradient [1,1,1] has sum [3,3,3] and step 3
C6_Witness ==
    /\ size[1] = <<3>>
    /\ GroupOf(1).weight_decay = 0 /\ GroupOf(1).l1_C = 0 /\ GroupOf(1).lr_decay = 0
    /\ hist[1] = <<Dense(Ones(3)), Dense(Ones(3)), Dense(Ones(3))>>
    /\ state[1].sum = <<3 * Scale, 3 * Scale, 3 * Scale>>
    /\ state[1].step = 3
    /\ \A i \in 1..3 : pdata[1][i] < 0

\* the L1 condition as C9 words it: the two flag tests joined by a conjunction
ClaimedL1(group, shape) ==
    /\ group.l1_C # 0
    /\ ((~no_bias_l1) \/ Len(shape) > 1 \/ shape[1] > 1)
    /\ ((~no_non_singleton_l1) \/ shape[1] = 1)

\* C9: step() sends a parameter down the L1 branch, the only one that changes
\* avg, exactly when l1_C # 0 and ((not no_bias_l1) or rank > 1 or first
\* dimension > 1) and ((not no_non_singleton_l1) or first dimension = 1)
C9_L1ExactlyWhenClaimed ==
    [][\A p \in Params :
          (StepCall /\ ret'.kind = "return" /\ grad'[p].kind # "none")
             => ((state'[p].avg # state[p].avg) <=> ClaimedL1(GroupOf(p), size[p]))]_vars

-----------------------------------------------------------------------------
(* Properties of the training entry point, checked under TrainSpec *)

\* C2: when the config holds a data_size no larger than the dataset, the
\* dataset trainer.train receives has exactly data_size examples
C2_TrainerGetsDataSize ==
    (op = "train_from_config" /\ config # <<>> /\ config[1] <= NumExamples)
        => Len(trained) = config[1]

====
